---------------------------- MODULE Spec2Model ----------------------------
(***************************************************************************)
(* Capture/session streaming protocol of the calibration frontend:         *)
(*   - the redux slice          (src/src/store/backgroundSelectionSlice.ts) *)
(*   - the socket service       (src/src/services/websocket.ts)             *)
(*   - the page component       (src/src/components/                        *)
(*                               BackgroundSelectionPage.tsx)               *)
(*                                                                         *)
(* Scheduling is single threaded: every action below is one handler, one   *)
(* timer callback or one continuation of an async function, run to         *)
(* completion.                                                             *)
(*                                                                         *)
(* Representation.                                                         *)
(*   - identifiers are naturals, NoId (0) is null/undefined;               *)
(*   - savedBackground is a set: {} is null, {r} is the record r;          *)
(*   - currentFrame is its frameCount, NoFrame (0) is null;                *)
(*   - images, timestamps, the log and the fps display are left out;       *)
(*   - effects, note, redone, lastFlag, droppedInCapture, stopped and      *)
(*     awaitingRestart record                                              *)
(*     what handlers did (wire events and teardown steps of the last one,  *)
(*     its alert or final log line, a redo, the flag of the last frame     *)
(*     event, a drop under the running loop, a Stop not followed by a      *)
(*     start); no handler reads them;                                      *)
(*   - the slice fields inputMode, selectedFileName, success and           *)
(*     hasStartedProcessing are never read by the protocol and left out;   *)
(*   - isCapturingRef is kept equal to isCapturing by its sync effect and  *)
(*     is the same variable here;                                          *)
(*   - WebSocketService.frameInterval / videoElement are never set by the  *)
(*     page (startFrameCapture has no caller): stopFrameCapture changes    *)
(*     nothing and has no variable.                                        *)
(*                                                                         *)
(* Scope.  One visit of the page, from its mount to its unmount: io() is   *)
(* called once, so there is one socket object.  The remote service is not  *)
(* part of the repository; it is modelled by the answers its interface     *)
(* (WebSocketEvents) allows: it issues a fresh identifier per              *)
(* start_session, answers a request at any later time or never, and keeps  *)
(* at most one unanswered request of each kind per session.  Its session    *)
(* identifiers are two values, of which it never issues the same twice    *)
(* in a row.                                                               *)
(***************************************************************************)
EXTENDS Naturals, Sequences, FiniteSets

\* ------------------------------------------------------------------ bounds
\* start requests (Start Camera clicks and video uploads) in one visit
MaxStarts == 2

\* calls of connect() on the service taken alone
MaxConnects == 3

NoId == 0
NoFrame == 0

VARIABLES
    store,          \* the redux slice (BackgroundSelectionState)
    mounted,        \* the page component is mounted
    isCapturing,    \* useState isCapturing (and isCapturingRef)
    localStream,    \* useState localStream is non-null
    isUsingVideo,   \* useState isUsingVideo
    frameCount,     \* useState frameCount
    timers,         \* number of pending setTimeout(captureLoop) timers
    refLive,        \* captureIntervalRef holds the handle of a pending timer
    starts,         \* start requests made so far
    gumPending,     \* startCapture calls awaiting getUserMedia
    gumOrphans,     \* the same, after the page has unmounted
    metaWaiter,     \* the start awaiting onloadedmetadata: none/camera/file
    waiting500,     \* starts in their 500 ms wait after start_session
    liveStreams,    \* camera streams acquired whose tracks are not stopped
    socket,         \* WebSocketService.socket is non-null
    sock,           \* state of the socket object io() created
    promise,        \* state of the promise the last connect() returned
    connects,       \* calls of connect() so far
    old,            \* the sockets io() created before the last one that
                    \* were still alive when the service let go of them
    subscribed,     \* the socket carries the page's six event handlers
    srv,            \* the remote service's view of the connection
    effects,        \* what the last handler did outside the page, in order:
                    \* events put on the wire, "cancel_loop" (the pending
                    \* tick cancelled), "release_media" (tracks stopped),
                    \* "close" (socket.disconnect()), "io" (a socket
                    \* created), "resolve" (connect() resolved at once
                    \* with the socket the service holds)
    note,           \* the alert or final log line of the last handler
    redone,         \* handleRedoBackground has run in this visit
    lastFlag,       \* has_background of the last frame_processed handled
                    \* since the last resetSession, FALSE if there is none
    droppedInCapture, \* the link dropped under the capture loop now running
    stopped,        \* Stop was clicked and no start has been requested since
    srcAttached,    \* the <video> element shown has a srcObject or src
    awaitingRestart \* a background was saved and no start has been
                    \* requested since

\* what a handler that neither alerts nor redoes leaves of the history
quiet == note' = "none" /\ redone' = redone /\ lastFlag' = lastFlag

pageVars == <<mounted, isCapturing, localStream, isUsingVideo, frameCount>>
timerVars == <<timers, refLive>>
startVars == <<starts, gumPending, gumOrphans, metaWaiter, waiting500>>
wsVars == <<socket, sock, promise, subscribed, connects, old>>
vars == <<store, mounted, isCapturing, localStream, isUsingVideo, frameCount,
          timers, refLive, starts, gumPending, gumOrphans, metaWaiter,
          waiting500, liveStreams, socket, sock, promise, subscribed, connects,
          old, srv,
          effects, note, redone, lastFlag, droppedInCapture, stopped,
          srcAttached, awaitingRestart>>

\* ------------------------------------------------------------- the slice
initialState ==
    [ sessionId |-> NoId,
      isSessionActive |-> FALSE,
      currentFrame |-> NoFrame,
      savedBackground |-> {},
      isProcessing |-> FALSE,
      isLoading |-> FALSE,
      error |-> "null",
      connectionStatus |-> "disconnected",
      processingStatus |-> "Not started",
      hasBackground |-> FALSE ]

setConnectionStatus(s, status) == [s EXCEPT !.connectionStatus = status]

handleConnected(s) == [s EXCEPT !.connectionStatus = "connected", !.error = "null"]

\* handleDisconnected that also drops the saved background
handleDisconnected_dropsSaved(s) ==
    [s EXCEPT !.connectionStatus = "disconnected",
              !.isSessionActive = FALSE,
              !.isProcessing = FALSE,
              !.savedBackground = {}]

handleDisconnected(s) ==
    [s EXCEPT !.connectionStatus = "disconnected",
              !.isSessionActive = FALSE,
              !.isProcessing = FALSE]

\* handleSessionStarted that activates the session without adopting its id
handleSessionStarted_keepsId(s, data) ==
    [s EXCEPT !.isSessionActive = TRUE,
              !.isLoading = FALSE,
              !.error = "null",
              !.processingStatus = "Session started"]

handleSessionStarted(s, data) ==
    [s EXCEPT !.sessionId = data.session_id,
              !.isSessionActive = TRUE,
              !.isLoading = FALSE,
              !.error = "null",
              !.processingStatus = "Session started"]

\* handleFrameProcessed with a hasBackground that, once true, stays true
handleFrameProcessed_sticky(s, data) ==
    [s EXCEPT !.currentFrame = data.frame_count,
              !.isProcessing = TRUE,
              !.processingStatus = data.status,
              !.hasBackground = (s.hasBackground \/ data.has_background),
              !.error = "null"]

handleFrameProcessed(s, data) ==
    [s EXCEPT !.currentFrame = data.frame_count,
              !.isProcessing = TRUE,
              !.processingStatus = data.status,
              !.hasBackground = data.has_background,
              !.error = "null"]

handleBackgroundSaved(s, data) ==
    [s EXCEPT !.isLoading = FALSE,
              !.savedBackground = {[sessionId |-> data.session_id]}]

handleBackgroundUpdated(s) == [s EXCEPT !.processingStatus = "Background updated"]

\* handleWebSocketError that also ends the session
handleWebSocketError_endsSession(s, message) ==
    [s EXCEPT !.error = message,
              !.isLoading = FALSE,
              !.isSessionActive = FALSE,
              !.processingStatus = "Error occurred"]

handleWebSocketError(s, message) ==
    [s EXCEPT !.error = message,
              !.isLoading = FALSE,
              !.processingStatus = "Error occurred"]

startSessionRequest(s) ==
    [s EXCEPT !.isLoading = TRUE,
              !.error = "null",
              !.processingStatus = "Starting session..."]

saveBackgroundRequest(s) ==
    [s EXCEPT !.isLoading = TRUE,
              !.error = "null",
              !.processingStatus = "Saving background..."]

\* resetSession without its hasBackground reset
resetSession_keepsHasBackground(s) ==
    [s EXCEPT !.sessionId = NoId,
              !.isSessionActive = FALSE,
              !.currentFrame = NoFrame,
              !.isProcessing = FALSE,
              !.processingStatus = "Not started",
              !.error = "null"]

resetSession(s) ==
    [s EXCEPT !.sessionId = NoId,
              !.isSessionActive = FALSE,
              !.currentFrame = NoFrame,
              !.isProcessing = FALSE,
              !.hasBackground = FALSE,
              !.processingStatus = "Not started",
              !.error = "null"]

clearSavedBackground(s) == [s EXCEPT !.savedBackground = {}]


\* ------------------------------------------------------ the socket service
\* WebSocketService.isConnected: this.socket?.connected ?? false
isConnected == socket /\ sock = "connected"

\* The identifier the service issues after id: never the one it issued last.
\* Two identifiers stand for the fresh ones.
NextId(id) == IF id = 1 THEN 2 ELSE 1

\* The remote service's reaction to one event that reached the wire: a new
\* session per start_session, whose session_started is then in flight
\* (inStart); an owed frame_processed, background_saved (for the session it
\* was asked in) or background_updated.
ServerReceive(s, ev) ==
    CASE ev = "start_session" ->
           [s EXCEPT !.issued = NextId(s.issued),
                     !.session = NextId(s.issued),
                     !.inStart = Append(@, NextId(s.issued))]
      [] ev = "process_frame" -> [s EXCEPT !.frameOwed = TRUE]
      [] ev = "save_background" -> [s EXCEPT !.inSave = @ \cup {s.session}]
      [] ev = "update_background" -> [s EXCEPT !.updateOwed = TRUE]
      [] ev = "end_session" -> [s EXCEPT !.session = NoId]
      [] OTHER -> s

\* The link went away: the session and every answer in flight are lost.
ServerGone(s) ==
    [s EXCEPT !.session = NoId, !.inStart = <<>>, !.frameOwed = FALSE,
              !.inSave = {}, !.updateOwed = FALSE]

\* WebSocketService.emit without its connected check
emit_unguarded(s, ev) == ServerReceive(s, ev)

\* WebSocketService.emit: dropped unless this.socket?.connected
emit(s, ev) == IF isConnected THEN ServerReceive(s, ev) ELSE s

\* what emit puts on the wire
wire(ev) == IF isConnected THEN <<ev>> ELSE <<>>

\* WebSocketService.disconnect: stopFrameCapture(); if connected, endSession()
\* and socket.disconnect(); this.socket = null.
disconnectSock == IF isConnected THEN "closed" ELSE sock

disconnectSrv == IF isConnected THEN ServerGone(ServerReceive(srv, "end_session")) ELSE srv

disconnectFx == IF isConnected THEN <<"end_session", "close">> ELSE <<>>

\* The identifier the transport gives a connection (socket.id): not one of
\* the session identifiers the service issues.
SocketId == 3

\* this.socket?.id
socketId == IF socket THEN SocketId ELSE NoId

\* WebSocketService.endSession: the data of the end_session it emits
endSession == [session_id |-> socketId]

\* WebSocketService.off: removes the page's handlers from this.socket, if any
offAll == IF socket THEN FALSE ELSE subscribed

\* --------------------------------------------------------------- the page
\* videoRef.current: the <video> element exists only in the capture view
videoRef == mounted /\ store.savedBackground = {}

\* The page has mounted: the WebSocket setup effect has dispatched
\* setConnectionStatus('connecting'), connect() has created the socket, and
\* the six handlers are registered on it.
Init ==
    /\ store = setConnectionStatus(initialState, "connecting")
    /\ mounted = TRUE
    /\ isCapturing = FALSE
    /\ localStream = FALSE
    /\ isUsingVideo = FALSE
    /\ frameCount = 0
    /\ timers = 0
    /\ refLive = FALSE
    /\ starts = 0
    /\ gumPending = 0
    /\ gumOrphans = 0
    /\ metaWaiter = "none"
    /\ waiting500 = 0
    /\ liveStreams = 0
    /\ socket = TRUE
    /\ sock = "connecting"
    /\ promise = "pending"
    /\ connects = 1
    /\ old = <<>>
    /\ subscribed = TRUE
    /\ srv = [issued |-> NoId, session |-> NoId, inStart |-> <<>>,
              frameOwed |-> FALSE, inSave |-> {}, updateOwed |-> FALSE]
    /\ effects = <<>>
    /\ note = "none"
    /\ redone = FALSE
    /\ lastFlag = FALSE
    /\ droppedInCapture = FALSE
    /\ stopped = FALSE
    /\ srcAttached = FALSE
    /\ awaitingRestart = FALSE

\* socket 'connect' (first connection, or socket.io's automatic reconnection
\* after a transport-level drop): resolves the promise of connect(), whose
\* continuation in connectToWebSocket dispatches handleConnected; greeted:
\* the service's 'connected' event follows and reaches the page's handler.
SocketConnect ==
    /\ sock \in {"connecting", "dropped"}
    /\ sock' = "connected"
    /\ promise' = "settled"
    /\ \E greeted \in BOOLEAN :
         store' = IF promise = "pending" \/ (greeted /\ subscribed)
                  THEN handleConnected(store) ELSE store
    /\ effects' = <<>>
    /\ quiet
    /\ UNCHANGED <<pageVars, timerVars, startVars, liveStreams, socket,
                   subscribed, connects, old, srv, droppedInCapture, stopped,
                   srcAttached, awaitingRestart>>

\* socket 'connect_error' before the first connection: rejects the promise;
\* the catch of connectToWebSocket records the error.  The socket keeps trying.
SocketConnectError ==
    /\ sock = "connecting"
    /\ promise = "pending"
    /\ promise' = "settled"
    /\ store' = handleWebSocketError(setConnectionStatus(store, "error"),
                                     "Failed to connect to server")
    /\ effects' = <<>>
    /\ quiet
    /\ UNCHANGED <<pageVars, timerVars, startVars, liveStreams, socket, sock,
                   subscribed, connects, old, srv, droppedInCapture, stopped,
                   srcAttached, awaitingRestart>>

\* What the page does on the socket's 'disconnect' event: it registers no
\* handler for it, so the slice is left as it is.
onTransportDisconnect(s) == s

\* socket 'disconnect' raised by the link (not by disconnect()): the service
\* handler only calls stopFrameCapture().
TransportDrop ==
    /\ sock = "connected"
    /\ sock' = "dropped"
    /\ srv' = ServerGone(srv)
    /\ store' = onTransportDisconnect(store)
    /\ droppedInCapture' = (droppedInCapture \/ (socket /\ isCapturing /\ timers > 0))
    /\ stopped' = stopped
    /\ UNCHANGED <<srcAttached, awaitingRestart>>
    /\ effects' = <<>>
    /\ quiet
    /\ UNCHANGED <<pageVars, timerVars, startVars, liveStreams, socket,
                   promise, subscribed, connects, old>>

\* captureLoop returning without its setTimeout
schedule_none(n) == n

\* ------------------------------------------------------ the capture loop
\* setTimeout(captureLoop, ...): one more pending timer, its handle stored in
\* captureIntervalRef
schedule(n) == n + 1

\* One run of captureLoop past its precondition check; outcome is what the
\* video element and the canvas do: "not_ready" (readyState below
\* HAVE_ENOUGH_DATA, or no 2d context: reschedule without emitting), "ok"
\* (frame drawn, encoded and emitted), "error" (draw/encode throws: logged).
\* Every outcome schedules the next tick.
Outcomes == {"not_ready", "ok", "error"}

\* video.readyState === HAVE_ENOUGH_DATA needs an element with a source; one
\* that has a source may or may not be ready.
ready(outcome) == outcome # "not_ready" => srcAttached

captureLoopFx(outcome) == IF outcome = "ok" THEN wire("process_frame") ELSE <<>>

captureLoopSrv(outcome) == IF outcome = "ok" THEN emit(srv, "process_frame") ELSE srv

\* the precondition captureLoop re-checks at the top of every tick
captureLoopGuard(capturing) == capturing /\ videoRef /\ isConnected

\* A pending timer fires and runs captureLoop.
CaptureTick ==
    /\ timers > 0
    /\ \E fireRef \in BOOLEAN, outcome \in Outcomes :
         /\ ready(outcome)
         /\ fireRef => refLive
         /\ ~fireRef => timers > (IF refLive THEN 1 ELSE 0)
         /\ IF captureLoopGuard(isCapturing)
            THEN /\ timers' = schedule(timers - 1)
                 /\ refLive' = TRUE
                 /\ srv' = captureLoopSrv(outcome)
                 /\ effects' = captureLoopFx(outcome)
            ELSE /\ timers' = timers - 1
                 /\ refLive' = (refLive /\ ~fireRef)
                 /\ srv' = srv
                 /\ effects' = <<>>
    /\ quiet
    /\ UNCHANGED <<store, pageVars, startVars, liveStreams, wsVars,
                   droppedInCapture, stopped, srcAttached, awaitingRestart>>

\* --------------------------------------------------------- start and stop
\* Start Camera button: disabled={isCapturing || connectionStatus !==
\* 'connected' || isUsingVideo}, shown in the capture view only
StartCameraEnabled ==
    /\ videoRef
    /\ ~isCapturing
    /\ store.connectionStatus = "connected"
    /\ ~isUsingVideo

\* Upload Video button: disabled={isCapturing || connectionStatus !== 'connected'}
UploadVideoEnabled ==
    /\ videoRef
    /\ ~isCapturing
    /\ store.connectionStatus = "connected"

\* startCapture up to its first await: getUserMedia is requested.
StartCameraClick ==
    /\ StartCameraEnabled
    /\ starts < MaxStarts
    /\ starts' = starts + 1
    /\ gumPending' = gumPending + 1
    /\ droppedInCapture' = FALSE
    /\ stopped' = FALSE
    /\ srcAttached' = srcAttached
    /\ awaitingRestart' = FALSE
    /\ effects' = <<>>
    /\ quiet
    /\ UNCHANGED <<store, pageVars, timerVars, gumOrphans, metaWaiter, waiting500,
                   liveStreams, wsVars, srv>>

\* getUserMedia resolves: the stream is live.  Without a <video> element
\* startCapture returns; otherwise it keeps the stream in localStream,
\* attaches it and installs onloadedmetadata (replacing an earlier handler).
GetUserMediaOk ==
    /\ gumPending > 0
    /\ gumPending' = gumPending - 1
    /\ liveStreams' = liveStreams + 1
    /\ IF videoRef
       THEN /\ localStream' = TRUE
            /\ srcAttached' = TRUE
            /\ metaWaiter' = "camera"
       ELSE UNCHANGED <<localStream, srcAttached, metaWaiter>>
    /\ effects' = <<>>
    /\ quiet
    /\ UNCHANGED <<store, mounted, isCapturing, isUsingVideo, frameCount, timerVars,
                   starts, gumOrphans, waiting500, wsVars, srv, droppedInCapture,
                   stopped, awaitingRestart>>

\* startCapture going on to start the session after getUserMedia rejected
GetUserMediaFail_startsSession ==
    /\ gumPending > 0
    /\ gumPending' = gumPending - 1
    /\ store' = startSessionRequest(store)
    /\ srv' = emit(srv, "start_session")
    /\ effects' = wire("start_session")
    /\ waiting500' = waiting500 + 1
    /\ note' = "Failed to start camera"
    /\ redone' = redone
    /\ lastFlag' = lastFlag
    /\ UNCHANGED <<pageVars, timerVars, starts, gumOrphans, metaWaiter,
                   liveStreams, wsVars, droppedInCapture, stopped,
                   srcAttached, awaitingRestart>>

\* getUserMedia rejects (access denied, no camera): the catch alerts.
GetUserMediaFail ==
    /\ gumPending > 0
    /\ gumPending' = gumPending - 1
    /\ effects' = <<>>
    /\ note' = "Failed to start camera"
    /\ redone' = redone
    /\ lastFlag' = lastFlag
    /\ UNCHANGED <<store, pageVars, timerVars, starts, gumOrphans, metaWaiter,
                   waiting500, liveStreams, wsVars, srv, droppedInCapture,
                   stopped, srcAttached, awaitingRestart>>

\* getUserMedia settles for a startCapture whose page has unmounted: its
\* videoRef.current is null, so a stream it got is returned from unused.
GetUserMediaOrphan ==
    /\ gumOrphans > 0
    /\ gumOrphans' = gumOrphans - 1
    /\ \E ok \in BOOLEAN :
         liveStreams' = IF ok THEN liveStreams + 1 ELSE liveStreams
    /\ effects' = <<>>
    /\ quiet
    /\ UNCHANGED <<store, pageVars, timerVars, starts, gumPending, metaWaiter,
                   waiting500, wsVars, srv, droppedInCapture, stopped,
                   srcAttached, awaitingRestart>>

\* handleVideoUpload up to its first await: the file is attached to the
\* <video> element and onloadedmetadata installed.
UploadVideo ==
    /\ UploadVideoEnabled
    /\ starts < MaxStarts
    /\ starts' = starts + 1
    /\ isUsingVideo' = TRUE
    /\ metaWaiter' = "file"
    /\ droppedInCapture' = FALSE
    /\ stopped' = FALSE
    /\ srcAttached' = TRUE
    /\ awaitingRestart' = FALSE
    /\ effects' = <<>>
    /\ quiet
    /\ UNCHANGED <<store, mounted, isCapturing, localStream, frameCount, timerVars,
                   gumPending, gumOrphans, waiting500, liveStreams, wsVars, srv>>

\* onloadedmetadata fires and play() settles: startCapture / handleVideoUpload
\* dispatch startSessionRequest, emit start_session and begin the 500 ms wait.
LoadedMetadata ==
    /\ metaWaiter # "none"
    /\ videoRef
    /\ store' = startSessionRequest(store)
    /\ srv' = emit(srv, "start_session")
    /\ effects' = wire("start_session")
    /\ metaWaiter' = "none"
    /\ waiting500' = waiting500 + 1
    /\ quiet
    /\ UNCHANGED <<pageVars, timerVars, starts, gumPending, gumOrphans, liveStreams,
                   wsVars, droppedInCapture, stopped,
                   srcAttached, awaitingRestart>>

\* what startCapture / handleVideoUpload wait for before setIsCapturing(true):
\* the 500 ms timer alone
startWaitOver == TRUE

\* The 500 ms wait ends: setIsCapturing(true).  When that changes isCapturing
\* the frame capture loop effect runs: past its guard it calls captureLoop().
Wait500Done ==
    /\ waiting500 > 0
    /\ startWaitOver
    /\ waiting500' = waiting500 - 1
    /\ isCapturing' = TRUE
    /\ \E outcome \in Outcomes :
         /\ ready(outcome)
         /\ IF ~isCapturing /\ captureLoopGuard(TRUE)
            THEN /\ timers' = schedule(timers)
                 /\ refLive' = TRUE
                 /\ srv' = captureLoopSrv(outcome)
                 /\ effects' = captureLoopFx(outcome)
            ELSE /\ UNCHANGED <<timers, refLive, srv>>
                 /\ effects' = <<>>
    /\ quiet
    /\ UNCHANGED <<store, mounted, localStream, isUsingVideo, frameCount, starts,
                   gumPending, gumOrphans, metaWaiter, liveStreams, wsVars,
                   droppedInCapture, stopped, srcAttached, awaitingRestart>>

\* stopCapture as run by a closure that sees localStream = ls; throws: a
\* track's stop() throws, which ends stopCapture there.
\*   setIsCapturing(false); clearTimeout(captureIntervalRef.current);
\*   if (localStream) { stop every track; setLocalStream(null) }
\* stopCapture without its clearTimeout
stopCaptureTimers_keeps == timers

stopCaptureTimers == IF refLive THEN timers - 1 ELSE timers

stopCaptureReleases(ls, throws) == ls /\ ~throws

stopCaptureFx(ls, throws) ==
    <<"cancel_loop">> \o (IF stopCaptureReleases(ls, throws) THEN <<"release_media">> ELSE <<>>)

\* Stop button: disabled={!isCapturing}
StopClick ==
    /\ videoRef
    /\ isCapturing
    /\ \E throws \in BOOLEAN :
         /\ throws => localStream
         /\ localStream' = (localStream /\ ~stopCaptureReleases(localStream, throws))
         /\ liveStreams' = IF stopCaptureReleases(localStream, throws)
                           THEN liveStreams - 1 ELSE liveStreams
         /\ effects' = stopCaptureFx(localStream, throws)
         /\ srcAttached' = (srcAttached /\ (throws \/ isUsingVideo))
    /\ isCapturing' = FALSE
    /\ timers' = stopCaptureTimers
    /\ refLive' = FALSE
    /\ droppedInCapture' = FALSE
    /\ stopped' = TRUE
    /\ awaitingRestart' = awaitingRestart
    /\ quiet
    /\ UNCHANGED <<store, mounted, isUsingVideo, frameCount, startVars, wsVars, srv>>


\* ------------------------------------------------------ save and update
\* Save Background button: disabled={!hasBackground || isLoading}
SaveButtonEnabled == store.hasBackground /\ ~store.isLoading

\* handleSaveBackground's check without its sessionId half
handleSaveBackgroundPasses_anySession == isConnected

\* handleSaveBackground passes its check (line 349 negated)
handleSaveBackgroundPasses == isConnected /\ store.sessionId # NoId

\* A save-background request: a click on the Save button of the capture
\* view.  A disabled button runs no handler; handleSaveBackground alerts and
\* returns when its check fails.
SaveBackgroundClick ==
    /\ videoRef
    /\ IF SaveButtonEnabled /\ handleSaveBackgroundPasses
       THEN /\ store' = saveBackgroundRequest(store)
            /\ srv' = emit(srv, "save_background")
            /\ effects' = wire("save_background")
            /\ note' = "none"
       ELSE /\ UNCHANGED <<store, srv>>
            /\ effects' = <<>>
            /\ note' = IF SaveButtonEnabled THEN "No active session" ELSE "none"
    /\ redone' = redone
    /\ lastFlag' = lastFlag
    /\ UNCHANGED <<pageVars, timerVars, startVars, liveStreams, wsVars,
                   droppedInCapture, stopped, srcAttached, awaitingRestart>>

\* Update Background button (disabled={!isCapturing}) and
\* handleUpdateBackground; drawn: the frame was drawn and encoded (otherwise
\* no 2d context, or the draw throws and is logged).
UpdateBackgroundClick ==
    /\ videoRef
    /\ isCapturing
    /\ IF isConnected
       THEN /\ \E drawn \in BOOLEAN :
                 /\ srv' = IF drawn THEN emit(srv, "update_background") ELSE srv
                 /\ effects' = IF drawn THEN wire("update_background") ELSE <<>>
            /\ note' = "none"
       ELSE /\ srv' = srv
            /\ effects' = <<>>
            /\ note' = "Not connected"
    /\ redone' = redone
    /\ lastFlag' = lastFlag
    /\ UNCHANGED <<store, pageVars, timerVars, startVars, liveStreams, wsVars,
                   droppedInCapture, stopped, srcAttached, awaitingRestart>>

\* ---------------------------------------------------------------- leaving
\* What unmounting does to the page's own state: the <video> element and the
\* component state are gone, so a pending onloadedmetadata never fires, the
\* setIsCapturing(true) of a pending 500 ms wait has no effect, and a pending
\* getUserMedia settles into a startCapture without a <video> element.
PageGone ==
    /\ mounted' = FALSE
    /\ isCapturing' = FALSE
    /\ isUsingVideo' = FALSE
    /\ frameCount' = 0
    /\ starts' = starts
    /\ gumOrphans' = gumOrphans + gumPending
    /\ gumPending' = 0
    /\ metaWaiter' = "none"
    /\ waiting500' = 0
    /\ promise' = promise
    /\ UNCHANGED <<connects, old>>
    /\ droppedInCapture' = FALSE
    /\ stopped' = FALSE
    /\ srcAttached' = FALSE
    /\ awaitingRestart' = awaitingRestart
    /\ note' = "none"
    /\ redone' = redone
    /\ lastFlag' = lastFlag

\* The localStream the unmount cleanup's stopCapture sees: the cleanup was
\* created by the first render (deps [dispatch]), whose localStream is null.
cleanupLocalStream == FALSE

\* The component unmounts (navigation away by other means than Proceed): the
\* capture loop effect's cleanup clears the pending timer; the WebSocket
\* effect's cleanup runs stopCapture(), six off() and wsService.disconnect().
Unmount ==
    /\ mounted
    /\ PageGone
    /\ timers' = stopCaptureTimers
    /\ refLive' = FALSE
    /\ \E throws \in BOOLEAN :
         /\ throws => (cleanupLocalStream /\ localStream)
         /\ liveStreams' = IF stopCaptureReleases(cleanupLocalStream /\ localStream, throws)
                           THEN liveStreams - 1 ELSE liveStreams
         /\ effects' = stopCaptureFx(cleanupLocalStream /\ localStream, throws)
                          \o (IF throws THEN <<>> ELSE disconnectFx)
         /\ IF throws
            THEN UNCHANGED <<socket, sock, subscribed, srv>>
            ELSE /\ subscribed' = offAll
                 /\ socket' = FALSE
                 /\ sock' = disconnectSock
                 /\ srv' = disconnectSrv
    /\ localStream' = FALSE
    /\ store' = store

\* "Continue to Calibration" of the saved view: handleProceedToCalibration,
\* whose navigate() unmounts the page.  throws: a track's stop() throws in
\* the handler's stopCapture, whose catch still navigates; the handler's
\* disconnect() and handleDisconnected are then skipped and the cleanup's
\* off() and disconnect() act on the socket.
ProceedToCalibration ==
    /\ mounted
    /\ store.savedBackground # {}
    /\ PageGone
    /\ timers' = stopCaptureTimers
    /\ refLive' = FALSE
    /\ localStream' = FALSE
    /\ \E throws \in BOOLEAN :
         /\ throws => localStream
         /\ liveStreams' = IF stopCaptureReleases(localStream, throws)
                           THEN liveStreams - 1 ELSE liveStreams
         /\ effects' = stopCaptureFx(localStream, throws) \o disconnectFx
         /\ store' = IF throws THEN store ELSE handleDisconnected(store)
         /\ subscribed' = IF throws THEN offAll ELSE subscribed
    /\ socket' = FALSE
    /\ sock' = disconnectSock
    /\ srv' = disconnectSrv

\* handleRedoBackground reaches its wsService.disconnect(): stopCapture did
\* not throw and wsService.isConnected()
redoDisconnects(throws) == ~throws /\ isConnected

\* "Redo Background" of the saved view: handleRedoBackground.  throws: a
\* track's stop() throws in stopCapture; the catch resets the state only.
RedoBackground ==
    /\ mounted
    /\ store.savedBackground # {}
    /\ \E throws \in BOOLEAN :
         /\ throws => localStream
         /\ localStream' = (localStream /\ ~stopCaptureReleases(localStream, throws))
         /\ liveStreams' = IF stopCaptureReleases(localStream, throws)
                           THEN liveStreams - 1 ELSE liveStreams
         /\ effects' = stopCaptureFx(localStream, throws)
                          \o (IF redoDisconnects(throws) THEN disconnectFx ELSE <<>>)
         /\ socket' = IF redoDisconnects(throws) THEN FALSE ELSE socket
         /\ sock' = IF redoDisconnects(throws) THEN disconnectSock ELSE sock
         /\ srv' = IF redoDisconnects(throws) THEN disconnectSrv ELSE srv
         /\ note' = IF throws THEN "Error during reset"
                    ELSE "Ready to start new background selection"
    /\ isCapturing' = FALSE
    /\ timers' = stopCaptureTimers
    /\ refLive' = FALSE
    /\ store' = resetSession(clearSavedBackground(store))
    /\ frameCount' = 0
    /\ isUsingVideo' = FALSE
    /\ redone' = TRUE
    /\ lastFlag' = FALSE
    /\ droppedInCapture' = FALSE
    /\ stopped' = FALSE
    /\ srcAttached' = FALSE
    /\ awaitingRestart' = awaitingRestart
    /\ UNCHANGED <<mounted, startVars, promise, subscribed, connects, old>>

\* --------------------------------------------------- events from the service
\* an event of the service reaches a handler of the page
handlersLive == subscribed /\ sock = "connected"

\* session_started for the oldest unanswered start_session; the handler
\* dispatches handleSessionStarted(data).
SessionStarted ==
    /\ handlersLive
    /\ srv.inStart # <<>>
    /\ \E success \in BOOLEAN :
         store' = handleSessionStarted(store,
                      [success |-> success, session_id |-> Head(srv.inStart)])
    /\ srv' = [srv EXCEPT !.inStart = Tail(@)]
    /\ effects' = <<>>
    /\ quiet
    /\ UNCHANGED <<pageVars, timerVars, startVars, liveStreams, wsVars,
                   droppedInCapture, stopped, srcAttached, awaitingRestart>>

\* frame_processed: handleFrameProcessed(data) and setFrameCount
FrameProcessed ==
    /\ handlersLive
    /\ srv.frameOwed
    /\ \E hb \in BOOLEAN :
         /\ store' = handleFrameProcessed(store,
                         [frame_count |-> 1, status |-> "Processing",
                          has_background |-> hb])
         /\ lastFlag' = hb
    /\ frameCount' = IF mounted THEN 1 ELSE frameCount
    /\ srv' = [srv EXCEPT !.frameOwed = FALSE]
    /\ effects' = <<>>
    /\ note' = "none"
    /\ redone' = redone
    /\ UNCHANGED <<mounted, isCapturing, localStream, isUsingVideo, timerVars,
                   startVars, liveStreams, wsVars, droppedInCapture, stopped,
                   srcAttached, awaitingRestart>>

\* background_saved for a session a save was requested in.  The saved view
\* replaces the capture view: the <video> element, and with it a pending
\* onloadedmetadata, is gone.
BackgroundSaved ==
    /\ handlersLive
    /\ \E id \in srv.inSave, success \in BOOLEAN :
         /\ id # NoId
         /\ store' = handleBackgroundSaved(store,
                          [success |-> success, session_id |-> id])
         /\ srv' = [srv EXCEPT !.inSave = @ \ {id}]
    /\ metaWaiter' = "none"
    /\ srcAttached' = FALSE
    /\ awaitingRestart' = TRUE
    /\ effects' = <<>>
    /\ quiet
    /\ UNCHANGED <<pageVars, timerVars, starts, gumPending, gumOrphans, waiting500,
                   liveStreams, wsVars, droppedInCapture, stopped>>

\* background_updated
BackgroundUpdated ==
    /\ handlersLive
    /\ srv.updateOwed
    /\ store' = handleBackgroundUpdated(store)
    /\ srv' = [srv EXCEPT !.updateOwed = FALSE]
    /\ effects' = <<>>
    /\ quiet
    /\ UNCHANGED <<pageVars, timerVars, startVars, liveStreams, wsVars,
                   droppedInCapture, stopped, srcAttached, awaitingRestart>>

\* error: the service's answer to a request it cannot serve (a frame, an
\* update, or a save outside a session)
ServerError ==
    /\ handlersLive
    /\ \/ /\ srv.frameOwed
          /\ srv' = [srv EXCEPT !.frameOwed = FALSE]
       \/ /\ srv.updateOwed
          /\ srv' = [srv EXCEPT !.updateOwed = FALSE]
       \/ /\ NoId \in srv.inSave
          /\ srv' = [srv EXCEPT !.inSave = @ \ {NoId}]
    /\ store' = handleWebSocketError(store, "server error")
    /\ effects' = <<>>
    /\ quiet
    /\ UNCHANGED <<pageVars, timerVars, startVars, liveStreams, wsVars,
                   droppedInCapture, stopped, srcAttached, awaitingRestart>>

Next ==
    \/ SocketConnect
    \/ SocketConnectError
    \/ TransportDrop
    \/ CaptureTick
    \/ StartCameraClick
    \/ GetUserMediaOk
    \/ GetUserMediaFail
    \/ GetUserMediaOrphan
    \/ UploadVideo
    \/ LoadedMetadata
    \/ Wait500Done
    \/ StopClick
    \/ SaveBackgroundClick
    \/ UpdateBackgroundClick
    \/ Unmount
    \/ ProceedToCalibration
    \/ RedoBackground
    \/ SessionStarted
    \/ FrameProcessed
    \/ BackgroundSaved
    \/ BackgroundUpdated
    \/ ServerError

Spec == Init /\ [][Next]_vars

\* What the browser's scheduling guarantees: a timer that is set fires (the
\* 500 ms wait, the capture tick), the promise of getUserMedia settles and
\* an attached source reports its metadata.  Nothing is assumed of the user,
\* the remote service or the link.
FairSpec ==
    /\ Spec
    /\ WF_vars(Wait500Done)
    /\ WF_vars(CaptureTick)
    /\ WF_vars(LoadedMetadata)
    /\ WF_vars(GetUserMediaOk \/ GetUserMediaFail)
    /\ WF_vars(GetUserMediaOrphan)


\* ------------------------------------------- the socket service taken alone
\* The methods of WebSocketService called in any order by any caller, with
\* the events of the socket in between.  The page does not take part: its
\* variables keep the values they have before it mounts.  Of the sockets in
\* old only the state in which the service let go of them is kept.

\* the socket io() created last has not been closed by socket.disconnect()
alive == sock \in {"connecting", "connected", "dropped"}

\* connect() that calls io() whatever the state of the socket it holds
connectCreates_always == TRUE

\* connect() goes on to io(): the check of its line 37 fails
connectCreates == ~isConnected

\* the service as constructed: socket = null, no socket created, connect()
\* never called
ServiceInit ==
    /\ store = initialState
    /\ mounted = FALSE
    /\ isCapturing = FALSE
    /\ localStream = FALSE
    /\ isUsingVideo = FALSE
    /\ frameCount = 0
    /\ timers = 0
    /\ refLive = FALSE
    /\ starts = 0
    /\ gumPending = 0
    /\ gumOrphans = 0
    /\ metaWaiter = "none"
    /\ waiting500 = 0
    /\ liveStreams = 0
    /\ socket = FALSE
    /\ sock = "closed"
    /\ promise = "none"
    /\ connects = 0
    /\ old = <<>>
    /\ subscribed = FALSE
    /\ srv = [issued |-> NoId, session |-> NoId, inStart |-> <<>>,
              frameOwed |-> FALSE, inSave |-> {}, updateOwed |-> FALSE]
    /\ effects = <<>>
    /\ note = "none"
    /\ redone = FALSE
    /\ lastFlag = FALSE
    /\ droppedInCapture = FALSE
    /\ stopped = FALSE
    /\ srcAttached = FALSE
    /\ awaitingRestart = FALSE

\* connect(): resolves with the socket held if it is connected; otherwise
\* creates a socket with io() and the three handlers, replacing the
\* reference to the one held before, and returns a pending promise.
ServiceConnect ==
    /\ connects < MaxConnects
    /\ connects' = connects + 1
    /\ IF connectCreates
       THEN /\ socket' = TRUE
            /\ sock' = "connecting"
            /\ old' = IF alive THEN Append(old, sock) ELSE old
            /\ promise' = "pending"
            /\ srv' = ServerGone(srv)
            /\ effects' = <<"io">>
       ELSE /\ promise' = "settled"
            /\ effects' = <<"resolve">>
            /\ UNCHANGED <<socket, sock, old, srv>>
    /\ quiet
    /\ UNCHANGED <<store, pageVars, timerVars, startVars, liveStreams,
                   subscribed, droppedInCapture, stopped,
                   srcAttached, awaitingRestart>>

\* disconnect()
ServiceDisconnect ==
    /\ socket' = FALSE
    /\ sock' = disconnectSock
    /\ srv' = disconnectSrv
    /\ effects' = disconnectFx
    /\ quiet
    /\ UNCHANGED <<store, pageVars, timerVars, startVars, liveStreams, promise,
                   subscribed, connects, old, droppedInCapture, stopped,
                   srcAttached, awaitingRestart>>

\* emit(event, data), for the events that need no session bookkeeping
ServiceEmit ==
    /\ \E ev \in {"process_frame", "update_background"} :
         /\ srv' = emit(srv, ev)
         /\ effects' = wire(ev)
    /\ quiet
    /\ UNCHANGED <<store, pageVars, timerVars, startVars, liveStreams, wsVars,
                   droppedInCapture, stopped, srcAttached, awaitingRestart>>

ServiceNext ==
    \/ ServiceConnect
    \/ ServiceDisconnect
    \/ ServiceEmit
    \/ SocketConnect
    \/ SocketConnectError
    \/ TransportDrop

ServiceSpec == ServiceInit /\ [][ServiceNext]_vars

\* =================================================================== claims
\* the last handler put ev on the wire (or performed the local step ev)
Emitted(ev) == \E i \in DOMAIN effects : effects[i] = ev

\* a start_session is on its way or being served, and no session is active
\* yet: the client is between its start request and the acknowledgment
AwaitingAck == srv.inStart # <<>> /\ ~store.isSessionActive

\* C1: no process_frame is emitted between the start request and the
\* session_started acknowledgment.
C1_NoFrameBeforeAck == Emitted("process_frame") => ~AwaitingAck

\* C2: every process_frame is emitted with the connection connected and the
\* session active.
C2_FrameOnlyInActiveSession ==
    Emitted("process_frame") => (isConnected /\ store.isSessionActive)

\* C3: a save-background request made while hasBackground is false or there
\* is no session id sends nothing and changes no state.
C3_SaveRefusedIsNoOp ==
    [][(SaveBackgroundClick /\ (~store.hasBackground \/ store.sessionId = NoId))
          => /\ effects' = <<>>
             /\ UNCHANGED <<store, srv, pageVars, timerVars, startVars,
                            liveStreams, wsVars>>]_vars

\* C3 happens: handleSaveBackground has just refused a request that the
\* enabled Save button let through while there was no session id.
C3_Witness ==
    /\ note = "No active session"
    /\ store.hasBackground
    /\ store.sessionId = NoId
    /\ isConnected

\* C4: every teardown trigger (Stop, unmount, redo, proceed), taken with a
\* stream attached and the connection up, cancels the loop, releases the
\* media, emits end_session and closes the transport, once each, in this order.
C4_TeardownRunsAllSteps ==
    [][((StopClick \/ Unmount \/ ProceedToCalibration \/ RedoBackground)
          /\ isConnected /\ localStream)
          => effects' = <<"cancel_loop", "release_media", "end_session", "close">>]_vars

\* C5: an unmount while a camera stream acquired by startCapture is attached
\* stops the stream's tracks.
C5_UnmountReleasesCamera ==
    [][(Unmount /\ localStream) => liveStreams' < liveStreams]_vars

\* C6: when the media release of a proceed or a redo throws, end_session is
\* still sent and the transport is still closed.
C6_ThrowStillEndsSession ==
    [][((ProceedToCalibration \/ RedoBackground)
          /\ isConnected /\ localStream /\ liveStreams' = liveStreams)
          => (sock' = "closed" /\ \E i \in DOMAIN effects' : effects'[i] = "end_session")]_vars

\* C7: once the transport has dropped under a running capture loop, that
\* loop emits no process_frame any more, whatever the transport does next.
C7_NoFrameAfterDrop == droppedInCapture => ~Emitted("process_frame")

\* C8: a transport-level disconnect of the page's socket takes
\* connectionStatus out of 'connected' and isSessionActive to false, with no
\* user action.
C8_DropReachesStore ==
    [][(TransportDrop /\ socket /\ mounted)
          => (store'.connectionStatus # "connected" /\ ~store'.isSessionActive)]_vars

\* C9: Redo leaves savedBackground = null, sessionId = null, isSessionActive
\* = false, hasBackground = false, currentFrame = null, the frame counter 0
\* and processingStatus = 'Not started', on its normal and on its catch path.
C9_RedoResets ==
    [][RedoBackground
          => /\ store'.savedBackground = {}
             /\ store'.sessionId = NoId
             /\ ~store'.isSessionActive
             /\ ~store'.hasBackground
             /\ store'.currentFrame = NoFrame
             /\ frameCount' = 0
             /\ store'.processingStatus = "Not started"]_vars

\* C9 happens: the catch path of a redo has just run and left the fields reset.
C9_Witness ==
    /\ redone
    /\ note = "Error during reset"
    /\ store.savedBackground = {}
    /\ store.sessionId = NoId
    /\ ~store.hasBackground
    /\ frameCount = 0
    /\ store.processingStatus = "Not started"

\* C10: after a redo, a start sends start_session (so that the session can
\* reach active with an identifier of a session_started received after the
\* redo).
C10_StartAfterRedoStartsSession ==
    [][(redone /\ LoadedMetadata) => effects' = <<"start_session">>]_vars


\* C11: hasBackground equals the has_background flag of the most recent
\* frame_processed event, and is false when none has arrived since the last
\* reset.
C11_HasBackgroundIsLastFlag == store.hasBackground = lastFlag

\* C11 happens: a frame_processed carrying has_background = true was the
\* last one handled.
C11_Witness ==
    /\ lastFlag
    /\ store.hasBackground
    /\ store.currentFrame # NoFrame
    /\ store.processingStatus = "Processing"

\* C12: a SavedBackground is created with the identifier of the session that
\* is current on the client when the acknowledgment is applied.
C12_SavedIdIsCurrentSession ==
    [][BackgroundSaved
          => \A r \in store'.savedBackground : r.sessionId = store'.sessionId]_vars

\* C13: a set savedBackground keeps its contents until it is cleared by a
\* redo; a further background_saved does not overwrite it.
C13_SavedBackgroundImmutable ==
    [][(store.savedBackground # {} /\ ~RedoBackground)
          => store'.savedBackground = store.savedBackground]_vars

\* C14: after proceed-to-calibration has disconnected and dispatched
\* handleDisconnected, sessionId is null and isSessionActive and isProcessing
\* are false.
C14_ProceedClearsSession ==
    [][(ProceedToCalibration /\ store'.connectionStatus = "disconnected")
          => /\ store'.sessionId = NoId
             /\ ~store'.isSessionActive
             /\ ~store'.isProcessing]_vars

\* C15: savedBackground goes from set to null only in a redo; every other
\* handler or event leaves a set savedBackground set.
C15_OnlyRedoClearsSaved ==
    [][(store.savedBackground # {} /\ store'.savedBackground = {})
          => RedoBackground]_vars

\* C15 happens: proceed-to-calibration has ended the session and left the
\* page, and the saved background is still there for the calibration step.
C15_Witness ==
    /\ ~mounted
    /\ store.connectionStatus = "disconnected"
    /\ ~socket
    /\ store.savedBackground # {}


\* the media sources acquired and not released: camera streams whose tracks
\* are live, and the uploaded file attached to the <video> element
MediaSources == liveStreams + (IF isUsingVideo THEN 1 ELSE 0)

\* C16: at most one MediaSource is acquired and unreleased at any time (a
\* start request made while one is attached or being acquired acquires
\* nothing).
C16_AtMostOneMediaSource == MediaSources <= 1

\* a session is live: its session_started has been handled and the service
\* still holds a session on this connection (no end_session, no close since)
SessionLive == store.isSessionActive /\ srv.session # NoId /\ isConnected

\* C17: while a session is live the client emits no further start_session.
C17_NoStartWhileSessionLive ==
    [][SessionLive => ~(\E i \in DOMAIN effects' : effects'[i] = "start_session")]_vars

\* C18: once disconnect() has returned, the service holds no socket and the
\* link of the socket it held is closed, whatever state that socket was in.
C18_DisconnectClosesLink == ~socket => sock = "closed"

\* the events of the last handler that went on the wire
OnWire(fx) ==
    SelectSeq(fx, LAMBDA e : e \notin {"cancel_loop", "release_media", "close",
                                       "io", "resolve"})

\* C20: what is emitted while the service is not connected is dropped:
\* nothing goes on the wire and nothing reaches the remote service, then or
\* later; every event on the wire was emitted while connected.
C20_EmitAtMostOnce ==
    [][~isConnected => (OnWire(effects') = <<>> /\ srv' = srv)]_vars

\* C20 happens: a start request was made and its start_session dropped (the
\* service never received one), and the transport has connected again since
\* without the event being delivered.
C20_Witness ==
    /\ isConnected
    /\ store.isLoading
    /\ store.processingStatus = "Starting session..."
    /\ waiting500 > 0
    /\ srv.issued = NoId
    /\ srv.inStart = <<>>


\* C19: connect() called on a connected service resolves with the socket it
\* holds and creates none: the service is left with the same single
\* connection.
C19_ConnectIdempotent ==
    [][(ServiceConnect /\ isConnected)
          => /\ UNCHANGED <<socket, sock, old>>
             /\ promise' = "settled"
             /\ "io" \notin {effects'[i] : i \in DOMAIN effects'}]_vars

\* C19 happens: connect() has just been called again on a connected service
\* and resolved with the socket held, the only one ever created.
C19_Witness ==
    /\ effects = <<"resolve">>
    /\ connects = 2
    /\ isConnected
    /\ promise = "settled"
    /\ old = <<>>


\* C21: a server error event, or a failed connect, records the error and the
\* status text and ends nothing: sessionId, isSessionActive, hasBackground
\* and savedBackground are unchanged and the capture loop goes on.
C21_ErrorEndsNothing ==
    [][(ServerError \/ SocketConnectError)
          => /\ store'.error # "null"
             /\ store'.processingStatus = "Error occurred"
             /\ store'.sessionId = store.sessionId
             /\ store'.isSessionActive = store.isSessionActive
             /\ store'.hasBackground = store.hasBackground
             /\ store'.savedBackground = store.savedBackground
             /\ UNCHANGED <<isCapturing, timers, refLive>>]_vars

\* C21 happens: a server error has just been recorded in an active session
\* whose capture loop has its next tick pending.
C21_Witness ==
    /\ store.error = "server error"
    /\ store.processingStatus = "Error occurred"
    /\ store.isSessionActive
    /\ store.sessionId # NoId
    /\ isCapturing
    /\ timers = 1

\* C22: when getUserMedia fails no session is started: no start_session is
\* emitted, the slice does not enter 'starting' and no capture loop starts.
C22_MediaFailureStartsNothing ==
    [][GetUserMediaFail
          => /\ effects' = <<>>
             /\ store' = store
             /\ srv' = srv
             /\ UNCHANGED <<isCapturing, timers, refLive, waiting500, metaWaiter>>]_vars

\* C22 happens: the only start request so far has just failed at
\* getUserMedia; nothing is loading, capturing or known to the service.
C22_Witness ==
    /\ note = "Failed to start camera"
    /\ starts = 1
    /\ ~store.isLoading
    /\ ~isCapturing
    /\ timers = 0
    /\ srv.issued = NoId


\* C23: the wait for session_started is bounded: a page that has entered
\* the starting state leaves it, by the acknowledgment or else by a
\* timeout error, instead of staying in it for ever.
C23_StartWaitBounded ==
    (mounted /\ store.isLoading /\ store.processingStatus = "Starting session...")
        ~> (~store.isLoading \/ ~mounted)


\* C24: a start is accepted only while the transport is connected: a media
\* source is acquired (a start request goes through) and the starting state
\* entered only in states where the socket is connected.
C24_StartOnlyWhenConnected ==
    [][(StartCameraClick \/ UploadVideo \/ LoadedMetadata) => isConnected]_vars


\* C25: at most one capture tick is pending at any time, across starts,
\* stops, restarts, retries and unmount.
C25_AtMostOnePendingTick == timers <= 1

\* C25 happens: capture runs again after a second start request, with its
\* one tick pending.
C25_Witness ==
    /\ starts = 2
    /\ isCapturing
    /\ timers = 1
    /\ refLive
    /\ waiting500 = 0

\* C26: every run of captureLoop that passes its precondition check leaves
\* exactly one next tick scheduled, whatever the outcome of the run (frame
\* not ready, frame emitted, draw or encode failure).
C26_TickReschedules ==
    [][/\ (CaptureTick /\ captureLoopGuard(isCapturing))
             => (timers' = timers /\ refLive')
       /\ (Wait500Done /\ ~isCapturing /\ captureLoopGuard(TRUE))
             => (timers' = timers + 1 /\ refLive')]_vars

\* C26 happens: a run of captureLoop has just emitted a frame and the next
\* tick is pending.
C26_Witness ==
    /\ effects = <<"process_frame">>
    /\ isCapturing
    /\ timers = 1
    /\ refLive

\* C27: after Stop no capture tick runs the loop and no process_frame is
\* emitted until capture is started again (Start Camera or Upload Video).
C27_NoFrameAfterStop == stopped => ~Emitted("process_frame")

\* C28: update_background is sent only while a capture loop is running,
\* that is, while a tick is scheduled.
C28_UpdateOnlyWhileLoopRuns == Emitted("update_background") => timers > 0

\* C29: the end_session emitted for an active session carries the session
\* identifier the client adopted at session_started.
C29_EndSessionCarriesAdoptedId ==
    [][(/\ \E i \in DOMAIN effects' : effects'[i] = "end_session"
        /\ store.isSessionActive
        /\ store.sessionId # NoId)
          => endSession.session_id = store.sessionId]_vars

\* C30: an acknowledgment with success = false advances nothing: a failed
\* session_started adopts no identifier and activates no session, a failed
\* background_saved leaves savedBackground as it was.
C30_FailedAckAdvancesNothing ==
    [][/\ (/\ SessionStarted
            /\ store' = handleSessionStarted(store,
                             [success |-> FALSE, session_id |-> Head(srv.inStart)]))
             => (/\ store'.sessionId = store.sessionId
                 /\ store'.isSessionActive = store.isSessionActive)
       /\ (/\ BackgroundSaved
            /\ \E id \in srv.inSave :
                 store' = handleBackgroundSaved(store,
                              [success |-> FALSE, session_id |-> id]))
             => store'.savedBackground = store.savedBackground]_vars

\* C31: from the moment a background is saved, no process_frame is emitted
\* until, after a redo, a new start has been requested.
C31_NoFrameUntilRestart == awaitingRestart => ~Emitted("process_frame")

\* C32: an active session always has an identifier: whatever the user
\* requests and the service sends, isSessionActive implies sessionId non-null.
C32_ActiveHasId == store.isSessionActive => store.sessionId # NoId

\* C32 happens: the session of a second start request has been adopted and
\* is active.
C32_Witness ==
    /\ store.isSessionActive
    /\ store.sessionId = 2
    /\ starts = 2

\* the sockets io() has created that are open, connecting or reconnecting
AliveSockets == Len(old) + (IF alive THEN 1 ELSE 0)

\* those of them the service holds no reference to
OrphanSockets == Len(old) + (IF alive /\ ~socket THEN 1 ELSE 0)

\* C33: whatever the order of connect() and disconnect() calls, at most one
\* socket is open or connecting, and none is alive without being the one
\* the service holds.
C33_NoOrphanSocket == AliveSockets <= 1 /\ OrphanSockets = 0

=============================================================================
